---- MODULE Spec2Model ----
(***************************************************************************)
(* Model of the AQI extraction pipeline of adb-public-health:              *)
(*   src/utils.py           separate_into_breakpoints                      *)
(*   src/data_extractor.py  DataExtractor (_get_student_dict,              *)
(*                          _extract_from_owm, _format_concentration,      *)
(*                          _calculate_aqi, get_rt, get_fc)                *)
(*   src/main.py            main                                           *)
(*                                                                         *)
(* Concentrations are floats in the source.  Here a concentration is an    *)
(* integer number of hundredths of a microgram per cubic metre, so 9.05 is *)
(* 905 and the table bound 35.4 is 3540.  An AQI value before rounding is  *)
(* the exact fraction [num, den].                                          *)
(***************************************************************************)
EXTENDS Integers, Sequences, FiniteSets, TLC

VARIABLES
    \* ---- the run of main (Spec) ----
    students_df,    \* rows the roster query returns (data_extractor.py:89)
    step,           \* CONFIGS['main']['breakpoint_steps']
    pc,             \* position of the run
    err,            \* the exception that ended the run, NoError when there is none
    students_dict,  \* extractor.students_dict, as the sequence of its rows in key order
    student_ids,    \* main: list(extractor.students_dict.keys())
    breakpoints,    \* main: the breakpoints list
    i,              \* main: index of the outer loop (0-based, as in the source)
    student_chunks, \* main: the chunk of the current iteration
    j,              \* get_rt / get_fc: position in student_ids of the loop (1-based)
    dfs,            \* get_rt / get_fc: the local list of per-participant frames
    request_type,   \* _extract_from_owm: 'current_air' or 'forecast_air'
    r,              \* _extract_from_owm: the last response, None while there is none
    dfs_rt,         \* main: frames returned by get_rt
    dfs_fc,         \* main: frames returned by get_fc
    df_insert,      \* main: the merged frame handed to the sink
    requests,       \* history: every requests.get issued, in order
    answered429,    \* history: number of 429 answers the API has given
    clock,          \* seconds spent in time.sleep so far
    pauses,         \* history: number of time.sleep(60) taken by main's loop
    logs,           \* the logger calls made, as a set of <<level, message>>
    table,          \* rows appended to the table daily_mycap
    committed,      \* whether extractor.db.commit() has been called
    \* ---- _format_concentration and _calculate_aqi on one value (AqiSpec) ----
    raw,        \* the concentration handed over by the API (hundredths)
    fmt,        \* the concentration after _format_concentration
    aqi,        \* _calculate_aqi(fmt)
    aqiRaw,     \* _calculate_aqi(raw), the function on the unformatted value
    apc,        \* "input" before the functions are applied, "done" after
    \* ---- separate_into_breakpoints on one input (PartSpec) ----
    total,      \* the argument total
    pstep,      \* the argument step
    result,     \* the list returned
    ppc,        \* "input" before the call, "done" after
    \* ---- the merge of main on one pair of frames (MergeSpec) ----
    rt,         \* the frame of current rows
    fc,         \* the frame of forecast rows
    full,       \* the merged and projected frame
    mpc         \* "input" before the merge, "done" after

mainVars == <<students_df, step, pc, err, students_dict, student_ids, breakpoints,
              i, student_chunks, j, dfs, request_type, r, dfs_rt, dfs_fc,
              df_insert, requests, answered429, clock, pauses, logs, table,
              committed>>
aqiVars == <<raw, fmt, aqi, aqiRaw, apc>>
partVars == <<total, pstep, result, ppc>>
mergeVars == <<rt, fc, full, mpc>>
vars == <<mainVars, aqiVars, partVars, mergeVars>>

(***************************************************************************)
(* Bounds of the model.                                                    *)
(***************************************************************************)
\* Concentrations drawn in AqiSpec range over -RawBelow .. RawAbove (hundredths).
RawBelow == 60
RawAbove == 500060
\* Spec: at most MaxRoster rows in the roster.
MaxRoster == 3
\* Spec: breakpoint_steps ranges over 1..MaxStep.
MaxStep == 3
\* Spec: the API answers 429 at most Max429 times in one run.
Max429 == 2
\* PartSpec: total ranges over 0..MaxTotal and step over 1..MaxPartStep.
MaxTotal == 45
MaxPartStep == 20
\* MergeSpec: participants 1..MaxMergeIds.
MaxMergeIds == 3

(***************************************************************************)
(* Python's None where a record is expected (the value _calculate_aqi      *)
(* returns when its loop falls through, a response not yet received).      *)
(***************************************************************************)
None == [None |-> TRUE]

\* No exception has left main.
NoError == "no error"

(***************************************************************************)
(* src/data_extractor.py:179  breakpoints_pm25, (I_low, I_high, C_low,     *)
(* C_high) with the concentrations in hundredths.                          *)
(***************************************************************************)
breakpoints_pm25 ==
    << <<0, 50, 0, 900>>,
       <<51, 100, 910, 3540>>,
       <<101, 150, 3550, 5540>>,
       <<151, 200, 5550, 12540>>,
       <<201, 300, 12550, 22540>>,
       <<301, 500, 22550, 500000>> >>

I_low(k) == breakpoints_pm25[k][1]
I_high(k) == breakpoints_pm25[k][2]
C_low(k) == breakpoints_pm25[k][3]
C_high(k) == breakpoints_pm25[k][4]

\* The condition of line 181 for tuple k.
InRange(k, concentration) ==
    C_low(k) <= concentration /\ concentration <= C_high(k)

\* The tuples whose range holds the concentration.
Matching(concentration) ==
    {k \in 1..Len(breakpoints_pm25) : InRange(k, concentration)}

\* Mutant of Interpolate: the offset I_low is left out.
InterpolateFromZero(k, concentration) ==
    [num |-> (I_high(k) - I_low(k)) * (concentration - C_low(k)),
     den |-> C_high(k) - C_low(k)]

\* Line 182 for tuple k, as the exact fraction num / den.
Interpolate(k, concentration) ==
    [num |-> (I_high(k) - I_low(k)) * (concentration - C_low(k))
                + I_low(k) * (C_high(k) - C_low(k)),
     den |-> C_high(k) - C_low(k)]

\* _calculate_aqi: the for loop returns at the first tuple that matches and
\* falls off the end of the function (None) when none does.
CalculateAqi(concentration) ==
    IF Matching(concentration) = {}
    THEN None
    ELSE LET k == CHOOSE m \in Matching(concentration) :
                       \A n \in Matching(concentration) : m <= n
         IN Interpolate(k, concentration)

\* np.round(x, 0) of num / den (den > 0): the nearest integer, ties to even.
RoundHalfEven(num, den) ==
    LET q == num \div den
        m == num % den
    IN IF 2 * m < den THEN q
       ELSE IF 2 * m > den THEN q + 1
       ELSE IF q % 2 = 0 THEN q ELSE q + 1

\* Mutant of Round1: the concentration is not rounded.
NoRound(x) == x

\* np.round(x, 1) of a concentration in hundredths: a multiple of 0.1.
Round1(x) == 10 * RoundHalfEven(x, 10)

(***************************************************************************)
(* src/utils.py                                                            *)
(***************************************************************************)
\* list(range(0, stop, stride)) for stride >= 1.
RangeList(stop, stride) ==
    IF stop <= 0 THEN <<>>
    ELSE [k \in 1..(((stop - 1) \div stride) + 1) |-> (k - 1) * stride]

\* Mutant of SeparateIntoBreakpoints: total is never appended.
SeparateWithoutTotal(n, stride) == RangeList(n + 1, stride)

\* separate_into_breakpoints(total, step), lines 8-14.
SeparateIntoBreakpoints(n, stride) ==
    LET bps == RangeList(n + 1, stride)
    IN IF bps[Len(bps)] # n THEN Append(bps, n) ELSE bps

(***************************************************************************)
(* Frames.  A DataFrame is the sequence of its rows, a row a record.       *)
(***************************************************************************)
\* A cell that may be missing is a sequence: <<>> when it is missing (NaN,
\* NaT), <<v>> when it holds v.
NaN == <<>>
Cell(v) == <<v>>

\* The sequence a function over 1..n stands for, with its elements evaluated.
Rows(f) == f \o <<>>

\* pd.concat(frames, axis=0).reset_index(drop=True)
RECURSIVE Concat(_)
Concat(frames) ==
    IF frames = <<>> THEN <<>> ELSE Head(frames) \o Concat(Tail(frames))

\* The values of column STUDENT_ID of a frame, as a set.
Ids(df) == {df[k].STUDENT_ID : k \in 1..Len(df)}

\* The rows of a frame with the given STUDENT_ID, in frame order.
RowsOf(df, id) == SelectSeq(df, LAMBDA row : row.STUDENT_ID = id)

\* The elements of a finite set of integers in ascending order.
RECURSIVE Ascending(_)
Ascending(S) ==
    IF S = {} THEN <<>>
    ELSE LET least == CHOOSE x \in S : \A y \in S : x <= y
         IN <<least>> \o Ascending(S \ {least})

\* Python's list[a:b] for 0 <= a <= b (both clipped to the length).
Slice(list, a, b) ==
    LET hi == IF b < Len(list) THEN b ELSE Len(list)
    IN IF a >= hi THEN <<>> ELSE SubSeq(list, a + 1, hi)

\* One row of full[['STUDENT_ID', 'LAT', 'LON', 'DT', 'AQI_CURRENT', 'AQI_TODAY',
\* 'AQI_NEXT_DAY']] (main.py:48) from a current row and a forecast row, either
\* of which may be missing (None).
JoinRow(id, left, right) ==
    [STUDENT_ID   |-> id,
     LAT          |-> IF left = None THEN NaN ELSE Cell(left.LAT),
     LON          |-> IF left = None THEN NaN ELSE Cell(left.LON),
     DT           |-> IF left = None THEN NaN ELSE Cell(left.DT),
     AQI_CURRENT  |-> IF left = None THEN NaN ELSE Cell(left.AQI_CURRENT),
     AQI_TODAY    |-> IF right = None THEN NaN ELSE Cell(right.AQI_TODAY),
     AQI_NEXT_DAY |-> IF right = None THEN NaN ELSE Cell(right.AQI_NEXT_DAY)]

\* The rows the outer join gives for one key: every pairing of the left rows
\* with the right rows that carry it, or the rows of the one side that has it.
JoinKey(left, right, id) ==
    LET ls == RowsOf(left, id)
        rs == RowsOf(right, id)
    IN IF rs = <<>> THEN [k \in 1..Len(ls) |-> JoinRow(id, ls[k], None)]
       ELSE IF ls = <<>> THEN [k \in 1..Len(rs) |-> JoinRow(id, None, rs[k])]
       ELSE [k \in 1..(Len(ls) * Len(rs)) |->
                JoinRow(id, ls[((k - 1) \div Len(rs)) + 1], rs[((k - 1) % Len(rs)) + 1])]

\* Mutant of Merge: an inner join, which keeps only the keys of both sides.
MergeInner(left, right) ==
    LET keys == Ascending(Ids(left) \cap Ids(right))
    IN Concat([k \in 1..Len(keys) |-> JoinKey(left, right, keys[k])])

\* pd.merge(rt, fc, on=['STUDENT_ID'], how='outer') followed by the projection
\* of main.py:48-49; the outer join orders the keys.
Merge(left, right) ==
    LET keys == Ascending(Ids(left) \cup Ids(right))
    IN Concat([k \in 1..Len(keys) |-> JoinKey(left, right, keys[k])])

(***************************************************************************)
(* src/data_extractor.py: the roster                                       *)
(***************************************************************************)
\* Mutant of RosterEmpty: the check of the roster is left out.
RosterNeverEmpty(df) == FALSE

\* len(students_df) < 1, line 92.
RosterEmpty(df) == Len(df) < 1

\* students_df[students_df['DT'].dt.date == students_df['DT'].dt.date.max()],
\* line 96: the rows of the latest registration day (none of an empty frame).
LatestRows(df) ==
    IF df = <<>> THEN <<>>
    ELSE LET latest == CHOOSE d \in {df[k].DT : k \in 1..Len(df)} :
                           \A k \in 1..Len(df) : df[k].DT <= d
         IN SelectSeq(df, LAMBDA row : row.DT = latest)

\* list(extractor.students_dict.keys()), main.py:26.
Keys(dict) == [k \in 1..Len(dict) |-> dict[k].STUDENT_ID]

\* self.students_dict[student_id]
Lookup(dict, id) == CHOOSE row \in {dict[k] : k \in 1..Len(dict)} : row.STUDENT_ID = id

(***************************************************************************)
(* src/data_extractor.py: _extract_from_owm                                *)
(***************************************************************************)
\* The url of lines 122-125 (the api key is the same in every request).
Url(row, kind) ==
    [path |-> IF kind = "current_air" THEN "air_pollution" ELSE "air_pollution/forecast",
     lat |-> row.LAT, lon |-> row.LON]

\* Mutant of QuotaReached: the status is not looked at, no retry is made.
QuotaNeverReached(resp) == FALSE

\* r.status_code == 429, the condition of the while loop of line 131.
QuotaReached(resp) == resp.status_code = 429

\* The argument of time.sleep in line 133.
RetryDelay == 60

(***************************************************************************)
(* src/data_extractor.py: _format_concentration, get_rt, get_fc            *)
(***************************************************************************)
\* _format_concentration(df, type), lines 159-165.
FormatConcentration(df, type) ==
    Rows([k \in 1..Len(df) |->
        IF type = "current" THEN [df[k] EXCEPT !.PM25 = Round1(@)]
        ELSE IF type = "forecast"
             THEN [df[k] EXCEPT !.PM25_TODAY = Round1(@), !.PM25_NEXT_DAY = Round1(@)]
             ELSE df[k]])

\* pd.to_datetime(t, unit='s') localized to UTC and converted to
\* Asia/Ho_Chi_Minh (lines 215-216): the same instant at UTC+7.
ToLocal(t) == [instant |-> t, utcoffset |-> 7 * 3600]

\* The frame get_rt builds from one response, lines 202-209.
RtParticipantFrame(r_json) ==
    << [STUDENT_ID |-> r_json.STUDENT_ID,
        LAT        |-> r_json.coord.lat,
        LON        |-> r_json.coord.lon,
        DT_UNIX    |-> r_json.list[1].dt,
        PM25       |-> r_json.list[1].pm2_5] >>

\* get_rt lines 213-221: the concatenated frame with DT and the formatted PM25.
RtFormatted(frames) ==
    LET df == Concat(frames)
        cols == Rows([k \in 1..Len(df) |->
                    [STUDENT_ID |-> df[k].STUDENT_ID, LAT |-> df[k].LAT,
                     LON |-> df[k].LON, DT |-> ToLocal(df[k].DT_UNIX),
                     PM25 |-> df[k].PM25]])
    IN FormatConcentration(cols, "current")

\* Lines 222-223 raise when _calculate_aqi returned None for some row: the
\* column then holds None / NaN, which np.round or astype(int) rejects.
RtRaises(frames) ==
    LET df == RtFormatted(frames)
    IN \E k \in 1..Len(df) : CalculateAqi(df[k].PM25) = None

\* get_rt's return value, lines 222-225.
RtResult(frames) ==
    LET df == RtFormatted(frames)
    IN Rows([k \in 1..Len(df) |->
           LET a == CalculateAqi(df[k].PM25)
           IN [STUDENT_ID |-> df[k].STUDENT_ID, LAT |-> df[k].LAT, LON |-> df[k].LON,
               DT |-> df[k].DT, PM25 |-> df[k].PM25,
               AQI_CURRENT |-> RoundHalfEven(a.num, a.den)]])

\* The number of hourly samples of one day, lines 244-248 ([:23] and [23:46]).
HoursPerDay == 23

\* The frame get_fc builds from one response, lines 244-256 (the two slices
\* have the same length for a response of 2 * HoursPerDay samples or more).
FcParticipantFrame(r_json) ==
    LET today == Slice(r_json.list, 0, HoursPerDay)
        next_day == Slice(r_json.list, HoursPerDay, 2 * HoursPerDay)
    IN Rows([k \in 1..Len(today) |->
           [STUDENT_ID    |-> r_json.STUDENT_ID,
            LAT           |-> r_json.coord.lat,
            LON           |-> r_json.coord.lon,
            DT_TODAY      |-> today[k].dt,
            PM25_TODAY    |-> today[k].pm2_5,
            DT_NEXT_DAY   |-> next_day[k].dt,
            PM25_NEXT_DAY |-> next_day[k].pm2_5]])

\* np.round(_calculate_aqi(x), 0) of one cell, NaN where the AQI is None
\* (lines 268-269).
HourlyAqi(x) ==
    LET a == CalculateAqi(x)
    IN IF a = None THEN NaN ELSE Cell(RoundHalfEven(a.num, a.den))

\* get_fc lines 260-269: the concatenated, formatted frame with the hourly AQI.
FcHourly(frames) ==
    LET df == FormatConcentration(Concat(frames), "forecast")
    IN Rows([k \in 1..Len(df) |->
           [STUDENT_ID   |-> df[k].STUDENT_ID, LAT |-> df[k].LAT, LON |-> df[k].LON,
            AQI_TODAY    |-> HourlyAqi(df[k].PM25_TODAY),
            AQI_NEXT_DAY |-> HourlyAqi(df[k].PM25_NEXT_DAY)]])

\* The sum of a sequence of cells that hold a value.
RECURSIVE SumSeq(_)
SumSeq(xs) == IF xs = <<>> THEN 0 ELSE Head(xs)[1] + SumSeq(Tail(xs))

\* The mean of a column over the rows of one group, rounded (lines 271-274):
\* mean skips NaN, and is NaN when every value is.
RoundedMean(values) ==
    LET present == SelectSeq(values, LAMBDA v : v # NaN)
    IN IF present = <<>> THEN NaN
       ELSE Cell(RoundHalfEven(SumSeq(present), Len(present)))

\* The groups of groupby(['STUDENT_ID', 'LAT', 'LON']), line 271.
GroupKeys(df) == {<<df[k].STUDENT_ID, df[k].LAT, df[k].LON>> : k \in 1..Len(df)}

KeyLess(a, b) ==
    \/ a[1] < b[1]
    \/ a[1] = b[1] /\ a[2] < b[2]
    \/ a[1] = b[1] /\ a[2] = b[2] /\ a[3] <= b[3]

RECURSIVE SortedKeys(_)
SortedKeys(S) ==
    IF S = {} THEN <<>>
    ELSE LET least == CHOOSE x \in S : \A y \in S : KeyLess(x, y)
         IN <<least>> \o SortedKeys(S \ {least})

\* get_fc lines 271-276 before astype(int): one row per group.
FcGrouped(frames) ==
    LET df == FcHourly(frames)
        keys == SortedKeys(GroupKeys(df))
        group(key) == SelectSeq(df, LAMBDA row :
                          <<row.STUDENT_ID, row.LAT, row.LON>> = key)
        column(g, name) == Rows([k \in 1..Len(g) |-> g[k][name]])
    IN Rows([k \in 1..Len(keys) |->
           [STUDENT_ID   |-> keys[k][1],
            AQI_TODAY    |-> RoundedMean(column(group(keys[k]), "AQI_TODAY")),
            AQI_NEXT_DAY |-> RoundedMean(column(group(keys[k]), "AQI_NEXT_DAY"))]])

\* Lines 268-274 raise when a group has no defined AQI in a column: np.round
\* rejects a column of None, astype(int) a NaN mean.
FcRaises(frames) ==
    LET df == FcGrouped(frames)
    IN \E k \in 1..Len(df) : df[k].AQI_TODAY = NaN \/ df[k].AQI_NEXT_DAY = NaN

\* get_fc's return value: astype(int) of the two means, lines 273-276.
FcResult(frames) ==
    LET df == FcGrouped(frames)
    IN Rows([k \in 1..Len(df) |->
           [STUDENT_ID   |-> df[k].STUDENT_ID,
            AQI_TODAY    |-> df[k].AQI_TODAY[1],
            AQI_NEXT_DAY |-> df[k].AQI_NEXT_DAY[1]]])

(***************************************************************************)
(* src/main.py: the pieces of the loop                                     *)
(***************************************************************************)
\* Mutant of StudentChunks: the slice runs one participant too far.
StudentChunksOverlap(ids, bps, stride, idx) ==
    IF Len(ids) <= stride THEN ids
    ELSE Slice(ids, bps[idx + 1], bps[idx + 2] + 1)

\* student_chunks of lines 33-36 in iteration idx (0-based).
StudentChunks(ids, bps, stride, idx) ==
    IF Len(ids) <= stride THEN ids
    ELSE Slice(ids, bps[idx + 1], bps[idx + 2])

\* Mutant of NeedsPause: the loop never pauses.
NeedsPauseNever(ids, stride) == FALSE

\* len(student_ids) > CONFIGS['main']['breakpoint_steps'], line 39.
NeedsPause(ids, stride) == Len(ids) > stride

\* The argument of time.sleep in line 40.
ChunkDelay == 60

(***************************************************************************)
(* The environment of a run: the roster the database returns and the       *)
(* answers of the weather API.                                             *)
(***************************************************************************)
\* A roster of n participants 1..n, participant k registered on day days[k].
Roster(n, days) ==
    [k \in 1..n |-> [STUDENT_ID |-> k, LAT |-> 20 + k, LON |-> 105 + k, DT |-> days[k]]]

\* The registration days of the rows of a roster: an earlier and a later one.
RegistrationDays == {1, 2}

\* PM2.5 readings the API may give (hundredths): 9.05 lies between two table
\* ranges, 5000.51 lies above the table.
PMSamples == {905, 500051}

\* <<today, next day>> readings of a forecast, each constant over its day.
FcDays == {<<1234, 3546>>, <<905, 500051>>}

\* An answer of the API as it travels: the status and the content in short
\* (the endpoint's echo of the coordinates and the readings it reports).
CurrentAnswer(url, v) ==
    [status_code |-> 200,
     content |-> [kind |-> "current", lat |-> url.lat, lon |-> url.lon, readings |-> <<v>>]]
ForecastAnswer(url, d) ==
    [status_code |-> 200,
     content |-> [kind |-> "forecast", lat |-> url.lat, lon |-> url.lon, readings |-> d]]
QuotaAnswer ==
    [status_code |-> 429,
     content |-> [kind |-> "quota", lat |-> 0, lon |-> 0, readings |-> <<>>]]

\* r.json() (data_extractor.py:137): the body of the answer.  The current
\* endpoint gives one sample, the forecast endpoint 2 * HoursPerDay hourly
\* samples (the first day's reading, then the next day's), a 429 answer an
\* error object without 'list'.
Json(resp) ==
    IF resp.content.kind = "current"
    THEN [coord |-> [lat |-> resp.content.lat, lon |-> resp.content.lon],
          list  |-> << [dt |-> 1, pm2_5 |-> resp.content.readings[1]] >>]
    ELSE IF resp.content.kind = "forecast"
    THEN [coord |-> [lat |-> resp.content.lat, lon |-> resp.content.lon],
          list  |-> Rows([k \in 1..(2 * HoursPerDay) |->
                        [dt |-> 1 + 3600 * k,
                         pm2_5 |-> IF k <= HoursPerDay
                                   THEN resp.content.readings[1]
                                   ELSE resp.content.readings[2]]])]
    ELSE [cod |-> 429, message |-> "quota exceeded"]

Last(xs) == xs[Len(xs)]

(***************************************************************************)
(* Spec: one run of main.                                                  *)
(***************************************************************************)
MainInit ==
    /\ \E n \in 0..MaxRoster : \E days \in [1..n -> RegistrationDays] :
           students_df = Roster(n, days)
    /\ step \in 1..MaxStep
    /\ pc = "construct"
    /\ err = NoError
    /\ students_dict = <<>>
    /\ student_ids = <<>>
    /\ breakpoints = <<>>
    /\ i = 0
    /\ student_chunks = <<>>
    /\ j = 1
    /\ dfs = <<>>
    /\ request_type = ""
    /\ r = None
    /\ dfs_rt = <<>>
    /\ dfs_fc = <<>>
    /\ df_insert = <<>>
    /\ requests = <<>>
    /\ answered429 = 0
    /\ clock = 0
    /\ pauses = 0
    /\ logs = {}
    /\ table = <<>>
    /\ committed = FALSE

\* An exception leaves main: the run ends, nothing else changes.
Raise(exception) ==
    /\ pc' = "crashed"
    /\ err' = exception

\* main.py:19, DataExtractor.__init__ with an empty roster: _get_student_dict
\* logs and raises (data_extractor.py:92-94).
ConstructEmpty ==
    /\ pc = "construct"
    /\ RosterEmpty(students_df)
    /\ logs' = logs \cup {<<"error", "DataFrame is empty">>}
    /\ Raise("EmptyDataError")
    /\ UNCHANGED <<aqiVars, partVars, mergeVars, students_df, step,
                   students_dict, student_ids, breakpoints, i,
                   student_chunks, j, dfs, request_type, r, dfs_rt, dfs_fc,
                   df_insert, requests, answered429, clock, pauses, table, committed>>

\* main.py:19, DataExtractor.__init__ with a roster (data_extractor.py:96-98).
ConstructOk ==
    /\ pc = "construct"
    /\ ~RosterEmpty(students_df)
    /\ students_dict' = LatestRows(students_df)
    /\ pc' = "partition"
    /\ UNCHANGED <<aqiVars, partVars, mergeVars, students_df, step,
                   err, student_ids, breakpoints, i,
                   student_chunks, j, dfs, request_type, r, dfs_rt, dfs_fc,
                   df_insert, requests, answered429, clock, pauses, logs, table,
                   committed>>

\* main.py:21-31.
Partition ==
    /\ pc = "partition"
    /\ student_ids' = Keys(students_dict)
    /\ breakpoints' = SeparateIntoBreakpoints(Len(Keys(students_dict)), step)
    /\ dfs_rt' = <<>>
    /\ dfs_fc' = <<>>
    /\ i' = 0
    /\ logs' = logs \cup {<<"info", "Extraction started">>,
                          <<"info", "Begin extraction & AQI calculations">>}
    /\ pc' = "loop"
    /\ UNCHANGED <<aqiVars, partVars, mergeVars, students_df, step,
                   err, students_dict, student_chunks, j, dfs,
                   request_type, r, df_insert, requests, answered429, clock,
                   pauses, table, committed>>

\* main.py:32-37: one more iteration; the chunk is cut and get_rt is entered
\* (data_extractor.py:196).
LoopEnter ==
    /\ pc = "loop"
    /\ i < Len(breakpoints) - 1
    /\ student_chunks' = StudentChunks(student_ids, breakpoints, step, i)
    /\ dfs' = <<>>
    /\ j' = 1
    /\ pc' = "get_rt"
    /\ UNCHANGED <<aqiVars, partVars, mergeVars, students_df, step,
                   err, students_dict, student_ids, breakpoints,
                   i, request_type, r, dfs_rt, dfs_fc, df_insert, requests,
                   answered429, clock, pauses, logs, table, committed>>

\* main.py:32: range(len(breakpoints)-1) is exhausted.
LoopExit ==
    /\ pc = "loop"
    /\ ~(i < Len(breakpoints) - 1)
    /\ pc' = "concat"
    /\ UNCHANGED <<aqiVars, partVars, mergeVars, students_df, step,
                   err, students_dict, student_ids, breakpoints,
                   i, student_chunks, j, dfs, request_type, r, dfs_rt, dfs_fc,
                   df_insert, requests, answered429, clock, pauses, logs, table,
                   committed>>

\* requests.get(url) of _extract_from_owm for participant id: the request is
\* recorded with the time, the iteration and the number of pauses of the
\* loop at which it is issued; status is 0 until the API answers.
Issue(id, kind) ==
    requests' = Append(requests,
                       [STUDENT_ID |-> id, request_type |-> kind,
                        url |-> Url(Lookup(students_dict, id), kind),
                        t |-> clock, iteration |-> i, pauses |-> pauses,
                        status |-> 0])

\* The answer to the request in flight is recorded.
Answered(code) == requests' = [requests EXCEPT ![Len(requests)].status = code]

\* get_rt line 198-199 and _extract_from_owm lines 118-130: the next
\* participant of the chunk, first request.
RtCall ==
    /\ pc = "get_rt"
    /\ j <= Len(student_chunks)
    /\ request_type' = "current_air"
    /\ Issue(student_chunks[j], "current_air")
    /\ r' = None
    /\ pc' = "requesting"
    /\ UNCHANGED <<aqiVars, partVars, mergeVars, students_df, step,
                   err, students_dict, student_ids, breakpoints,
                   i, student_chunks, j, dfs, dfs_rt, dfs_fc, df_insert,
                   answered429, clock, pauses, logs, table, committed>>

\* get_fc line 240-242 and _extract_from_owm lines 118-130.
FcCall ==
    /\ pc = "get_fc"
    /\ j <= Len(student_chunks)
    /\ request_type' = "forecast_air"
    /\ Issue(student_chunks[j], "forecast_air")
    /\ r' = None
    /\ pc' = "requesting"
    /\ UNCHANGED <<aqiVars, partVars, mergeVars, students_df, step,
                   err, students_dict, student_ids, breakpoints,
                   i, student_chunks, j, dfs, dfs_rt, dfs_fc, df_insert,
                   answered429, clock, pauses, logs, table, committed>>

\* The API answers the request in flight with a reading.
AnswerCurrent ==
    /\ pc = "requesting"
    /\ request_type = "current_air"
    /\ \E v \in PMSamples :
           r' = CurrentAnswer(Last(requests).url, v)
    /\ Answered(200)
    /\ pc' = "answered"
    /\ UNCHANGED <<aqiVars, partVars, mergeVars, students_df, step,
                   err, students_dict, student_ids, breakpoints,
                   i, student_chunks, j, dfs, request_type, dfs_rt, dfs_fc,
                   df_insert, answered429, clock, pauses, logs, table,
                   committed>>

\* The API answers the request in flight with a forecast.
AnswerForecast ==
    /\ pc = "requesting"
    /\ request_type = "forecast_air"
    /\ \E d \in FcDays :
           r' = ForecastAnswer(Last(requests).url, d)
    /\ Answered(200)
    /\ pc' = "answered"
    /\ UNCHANGED <<aqiVars, partVars, mergeVars, students_df, step,
                   err, students_dict, student_ids, breakpoints,
                   i, student_chunks, j, dfs, request_type, dfs_rt, dfs_fc,
                   df_insert, answered429, clock, pauses, logs, table,
                   committed>>

\* The API answers the request in flight with 429 (too many requests).
AnswerQuota ==
    /\ pc = "requesting"
    /\ answered429 < Max429
    /\ r' = QuotaAnswer
    /\ Answered(429)
    /\ answered429' = answered429 + 1
    /\ pc' = "answered"
    /\ UNCHANGED <<aqiVars, partVars, mergeVars, students_df, step,
                   err, students_dict, student_ids, breakpoints,
                   i, student_chunks, j, dfs, request_type, dfs_rt, dfs_fc,
                   df_insert, clock, pauses, logs, table, committed>>

\* _extract_from_owm lines 131-135: one turn of the while loop.
OwmRetry ==
    /\ pc = "answered"
    /\ QuotaReached(r)
    /\ logs' = logs \cup {<<"warning", "OWM minute quota reached, delay for 60s">>,
                          <<"info", "Retrying OWM GET request">>}
    /\ clock' = clock + RetryDelay
    /\ requests' = Append(requests, [Last(requests) EXCEPT !.t = clock + RetryDelay,
                                                            !.status = 0])
    /\ r' = None
    /\ pc' = "requesting"
    /\ UNCHANGED <<aqiVars, partVars, mergeVars, students_df, step,
                   err, students_dict, student_ids, breakpoints,
                   i, student_chunks, j, dfs, request_type, dfs_rt, dfs_fc,
                   df_insert, answered429, pauses, table, committed>>

\* _extract_from_owm lines 137-140 and the rest of the caller's loop body
\* (get_rt 202-211, get_fc 244-258): r_air['list'] raises KeyError on a body
\* without 'list'.
OwmReturn ==
    /\ pc = "answered"
    /\ ~QuotaReached(r)
    /\ LET r_json == [STUDENT_ID |-> student_chunks[j]] @@ Json(r)
       IN IF "list" \notin DOMAIN r_json
          THEN /\ Raise("KeyError")
               /\ UNCHANGED <<dfs, j>>
          ELSE /\ dfs' = Append(dfs, IF request_type = "current_air"
                                     THEN RtParticipantFrame(r_json)
                                     ELSE FcParticipantFrame(r_json))
               /\ j' = j + 1
               /\ pc' = IF request_type = "current_air" THEN "get_rt" ELSE "get_fc"
               /\ UNCHANGED err
    /\ r' = None
    /\ UNCHANGED <<aqiVars, partVars, mergeVars, students_df, step,
                   students_dict, student_ids, breakpoints,
                   i, student_chunks, request_type, dfs_rt, dfs_fc, df_insert,
                   requests, answered429, clock, pauses, logs, table, committed>>

\* get_rt lines 213-225 and main.py:37-38: the frame of the chunk is appended
\* to dfs_rt and get_fc is entered, unless an undefined AQI raises.
RtFinish ==
    /\ pc = "get_rt"
    /\ j > Len(student_chunks)
    /\ IF RtRaises(dfs)
       THEN /\ Raise("ValueError")
            /\ UNCHANGED <<dfs_rt, dfs, j>>
       ELSE /\ dfs_rt' = Append(dfs_rt, RtResult(dfs))
            /\ dfs' = <<>>
            /\ j' = 1
            /\ pc' = "get_fc"
            /\ UNCHANGED err
    /\ UNCHANGED <<aqiVars, partVars, mergeVars, students_df, step,
                   students_dict, student_ids, breakpoints,
                   i, student_chunks, request_type, r, dfs_fc, df_insert,
                   requests, answered429, clock, pauses, logs, table, committed>>

\* get_fc lines 260-276 and main.py:38.
FcFinish ==
    /\ pc = "get_fc"
    /\ j > Len(student_chunks)
    /\ IF FcRaises(dfs)
       THEN /\ Raise("ValueError")
            /\ UNCHANGED <<dfs_fc, dfs>>
       ELSE /\ dfs_fc' = Append(dfs_fc, FcResult(dfs))
            /\ dfs' = <<>>
            /\ pc' = "pause"
            /\ UNCHANGED err
    /\ UNCHANGED <<aqiVars, partVars, mergeVars, students_df, step,
                   students_dict, student_ids, breakpoints,
                   i, student_chunks, j, request_type, r, dfs_rt, df_insert,
                   requests, answered429, clock, pauses, logs, table, committed>>

\* main.py:39-40 and the step of the for loop.
ChunkPause ==
    /\ pc = "pause"
    /\ IF NeedsPause(student_ids, step)
       THEN /\ clock' = clock + ChunkDelay
            /\ pauses' = pauses + 1
       ELSE UNCHANGED <<clock, pauses>>
    /\ i' = i + 1
    /\ pc' = "loop"
    /\ UNCHANGED <<aqiVars, partVars, mergeVars, students_df, step,
                   err, students_dict, student_ids, breakpoints,
                   student_chunks, j, dfs, request_type, r, dfs_rt, dfs_fc,
                   df_insert, requests, answered429, logs, table, committed>>

\* main.py:42-49: pd.concat raises ValueError on an empty list of frames.
ConcatMerge ==
    /\ pc = "concat"
    /\ logs' = logs \cup {<<"info", "Concatenating DataFrames">>}
    /\ IF dfs_rt = <<>> \/ dfs_fc = <<>>
       THEN /\ Raise("ValueError")
            /\ UNCHANGED df_insert
       ELSE /\ df_insert' = Merge(Concat(dfs_rt), Concat(dfs_fc))
            /\ pc' = "to_sql"
            /\ UNCHANGED err
    /\ UNCHANGED <<aqiVars, partVars, mergeVars, students_df, step,
                   students_dict, student_ids, breakpoints,
                   i, student_chunks, j, dfs, request_type, r, dfs_rt, dfs_fc,
                   requests, answered429, clock, pauses, table, committed>>

\* main.py:53-54: the sink accepts the batch.
ToSqlOk ==
    /\ pc = "to_sql"
    /\ table' = table \o df_insert
    /\ logs' = logs \cup {<<"info", "Successfully inserted data into Database">>}
    /\ pc' = "commit"
    /\ UNCHANGED <<aqiVars, partVars, mergeVars, students_df, step,
                   err, students_dict, student_ids, breakpoints,
                   i, student_chunks, j, dfs, request_type, r, dfs_rt, dfs_fc,
                   df_insert, requests, answered429, clock, pauses, committed>>

\* main.py:53: the sink rejects the batch, to_sql raises.
ToSqlRaise ==
    /\ pc = "to_sql"
    /\ pc' = "except"
    /\ UNCHANGED <<aqiVars, partVars, mergeVars, students_df, step,
                   err, students_dict, student_ids, breakpoints,
                   i, student_chunks, j, dfs, request_type, r, dfs_rt, dfs_fc,
                   df_insert, requests, answered429, clock, pauses, logs, table,
                   committed>>

\* main.py:55-56: the handler logs the exception; control goes on to line 58.
ExceptHandler ==
    /\ pc = "except"
    /\ logs' = logs \cup {<<"exception", "Exception encountered: ">>}
    /\ pc' = "commit"
    /\ UNCHANGED <<aqiVars, partVars, mergeVars, students_df, step,
                   err, students_dict, student_ids, breakpoints,
                   i, student_chunks, j, dfs, request_type, r, dfs_rt, dfs_fc,
                   df_insert, requests, answered429, clock, pauses, table,
                   committed>>

\* main.py:58-61: the commit, then the summary of line 61, which reads
\* extractor.rt_error_list; DataExtractor (data_extractor.py:18-27) sets no
\* such attribute, so the f-string raises AttributeError and main ends there.
Commit ==
    /\ pc = "commit"
    /\ committed' = TRUE
    /\ Raise("AttributeError")
    /\ UNCHANGED <<aqiVars, partVars, mergeVars, students_df, step,
                   students_dict, student_ids, breakpoints,
                   i, student_chunks, j, dfs, request_type, r, dfs_rt, dfs_fc,
                   df_insert, requests, answered429, clock, pauses, logs, table>>

Next ==
    \/ ConstructEmpty
    \/ ConstructOk
    \/ Partition
    \/ LoopEnter
    \/ LoopExit
    \/ RtCall
    \/ FcCall
    \/ AnswerCurrent
    \/ AnswerForecast
    \/ AnswerQuota
    \/ OwmRetry
    \/ OwmReturn
    \/ RtFinish
    \/ FcFinish
    \/ ChunkPause
    \/ ConcatMerge
    \/ ToSqlOk
    \/ ToSqlRaise
    \/ ExceptHandler
    \/ Commit

\* The variables of the other specifications, at rest.
AqiIdle == raw = 0 /\ fmt = 0 /\ aqi = None /\ aqiRaw = None /\ apc = "off"
PartIdle == total = 0 /\ pstep = 1 /\ result = <<>> /\ ppc = "off"
MergeIdle == rt = <<>> /\ fc = <<>> /\ full = <<>> /\ mpc = "off"
MainIdle ==
    /\ students_df = <<>> /\ step = 1 /\ pc = "off" /\ err = NoError
    /\ students_dict = <<>> /\ student_ids = <<>> /\ breakpoints = <<>>
    /\ i = 0 /\ student_chunks = <<>> /\ j = 1 /\ dfs = <<>>
    /\ request_type = "" /\ r = None /\ dfs_rt = <<>> /\ dfs_fc = <<>>
    /\ df_insert = <<>> /\ requests = <<>> /\ answered429 = 0 /\ clock = 0
    /\ pauses = 0 /\ logs = {} /\ table = <<>> /\ committed = FALSE

Init == MainInit /\ AqiIdle /\ PartIdle /\ MergeIdle
Spec == Init /\ [][Next]_vars

\* One exchange with the API inside _extract_from_owm: the API answers the
\* request in flight, the loop of lines 131-135 takes its turn or the
\* function returns.
Exchange == AnswerCurrent \/ AnswerForecast \/ AnswerQuota \/ OwmRetry \/ OwmReturn

\* requests.get blocks until the API answers, and the single thread of the
\* run then takes its next step.
FairSpec == Spec /\ WF_vars(Exchange)

(***************************************************************************)
(* AqiSpec: _format_concentration followed by _calculate_aqi, as get_rt    *)
(* applies them to one reading (lines 221-222), on every concentration of  *)
(* the range.                                                              *)
(***************************************************************************)
AqiInit ==
    /\ raw \in (0 - RawBelow)..RawAbove
    /\ fmt = 0
    /\ aqi = None
    /\ aqiRaw = None
    /\ apc = "input"

ApplyAqi ==
    /\ apc = "input"
    /\ fmt' = Round1(raw)
    /\ aqi' = CalculateAqi(Round1(raw))
    /\ aqiRaw' = CalculateAqi(raw)
    /\ apc' = "done"
    /\ UNCHANGED <<raw, mainVars, partVars, mergeVars>>

AqiNext == ApplyAqi

AqiStart == AqiInit /\ MainIdle /\ PartIdle /\ MergeIdle

AqiSpec == AqiStart /\ [][AqiNext]_vars

(***************************************************************************)
(* PartSpec: separate_into_breakpoints on every total >= 0 and step >= 1   *)
(* of the range.                                                           *)
(***************************************************************************)
PartInit ==
    /\ total \in 0..MaxTotal
    /\ pstep \in 1..MaxPartStep
    /\ result = <<>>
    /\ ppc = "input"

ApplyPartition ==
    /\ ppc = "input"
    /\ result' = SeparateIntoBreakpoints(total, pstep)
    /\ ppc' = "done"
    /\ UNCHANGED <<total, pstep, mainVars, aqiVars, mergeVars>>

PartNext == ApplyPartition

PartStart == PartInit /\ MainIdle /\ AqiIdle /\ MergeIdle

PartSpec == PartStart /\ [][PartNext]_vars

(***************************************************************************)
(* MergeSpec: the merge of main.py:46-49 on every pair of a frame of       *)
(* current rows and a frame of forecast rows, each with at most one row    *)
(* per participant (as get_rt and get_fc return them).                     *)
(***************************************************************************)
\* The sequences without repetition over a finite set.
DistinctSeqs(S) ==
    {ids \in UNION {[1..n -> S] : n \in 0..Cardinality(S)} :
        \A a, b \in DOMAIN ids : a # b => ids[a] # ids[b]}

\* A row as get_rt returns it, for participant id.
CurrentRow(id) ==
    [STUDENT_ID |-> id, LAT |-> 20 + id, LON |-> 105 + id, DT |-> ToLocal(1),
     PM25 |-> 900, AQI_CURRENT |-> 50]

\* A row as get_fc returns it, for participant id.
ForecastRow(id) == [STUDENT_ID |-> id, AQI_TODAY |-> 57, AQI_NEXT_DAY |-> 101]

MergeInit ==
    /\ \E ids \in DistinctSeqs(1..MaxMergeIds) :
           rt = [k \in 1..Len(ids) |-> CurrentRow(ids[k])]
    /\ \E ids \in DistinctSeqs(1..MaxMergeIds) :
           fc = [k \in 1..Len(ids) |-> ForecastRow(ids[k])]
    /\ full = <<>>
    /\ mpc = "input"

ApplyMerge ==
    /\ mpc = "input"
    /\ full' = Merge(rt, fc)
    /\ mpc' = "done"
    /\ UNCHANGED <<rt, fc, mainVars, aqiVars, partVars>>

MergeNext == ApplyMerge

MergeStart == MergeInit /\ MainIdle /\ AqiIdle /\ PartIdle

MergeSpec == MergeStart /\ [][MergeNext]_vars

(***************************************************************************)
(* Properties.                                                             *)
(***************************************************************************)
\* The participants of a frame, in row order.
FrameIds(df) == [k \in 1..Len(df) |-> df[k].STUDENT_ID]

\* The requests issued so far for one participant and kind, and those of
\* them the API answered with 429.
Exchanges(id, kind) ==
    {k \in 1..Len(requests) :
        requests[k].STUDENT_ID = id /\ requests[k].request_type = kind}
Rejected(id, kind) == {k \in Exchanges(id, kind) : requests[k].status = 429}

RequestKinds == {"current_air", "forecast_air"}

\* The loop of main has ended and its frames are complete.
Extracted == pc \in {"concat", "to_sql", "except", "commit"} \/ committed

\* The number of chunks of the roster and the participants of chunk k.
ChunkCount == (Len(student_ids) + step - 1) \div step
ExpectedChunk(k) ==
    SubSeq(student_ids, (k - 1) * step + 1,
           IF k * step < Len(student_ids) THEN k * step ELSE Len(student_ids))

\* C1: a 429 answer is followed by a 60 second sleep and the same request
\* (same url, participant and kind) again; _extract_from_owm leaves its loop
\* only on an answer that is not 429; and a request in flight is eventually
\* answered to the caller once the API stops answering 429.
C1_QuotaRetry ==
    /\ [][(pc = "answered" /\ r.status_code = 429) =>
             /\ pc' = "requesting"
             /\ clock' = clock + 60
             /\ Len(requests') = Len(requests) + 1
             /\ Last(requests').url = Last(requests).url
             /\ Last(requests').STUDENT_ID = Last(requests).STUDENT_ID
             /\ Last(requests').request_type = Last(requests).request_type
             /\ Last(requests').t = Last(requests).t + 60
             /\ UNCHANGED <<dfs, j, dfs_rt, dfs_fc, err>>]_vars
    /\ [][(pc = "answered" /\ pc' # "requesting") => r.status_code # 429]_vars
    /\ (pc = "requesting") ~> (pc \in {"get_rt", "get_fc"})

\* C1 witness: the first request was answered 429 Max429 times in a row,
\* retried each time after 60 seconds, and then returned to get_rt.
C1_Witness ==
    /\ pc = "get_rt" /\ j = 2 /\ Len(dfs) = 1
    /\ Len(requests) = Max429 + 1
    /\ \A k \in 1..Max429 : requests[k].status = 429 /\ requests[k + 1].t = 60 * k
    /\ Last(requests).status = 200
    /\ clock = 60 * Max429

\* C2: the loop runs one iteration per chunk, over the chunks in order; when
\* the roster exceeds the chunk size every request of iteration m is issued
\* after m pauses of 60 seconds, and when it does not there is one iteration
\* and no pause.
C2_ChunksAndPauses ==
    /\ \A k \in 1..Len(requests) :
           /\ requests[k].iteration + 1 \in 1..ChunkCount
           /\ \E m \in DOMAIN ExpectedChunk(requests[k].iteration + 1) :
                  ExpectedChunk(requests[k].iteration + 1)[m] = requests[k].STUDENT_ID
           /\ Len(student_ids) > step =>
                  /\ requests[k].pauses = requests[k].iteration
                  /\ requests[k].t >= 60 * requests[k].iteration
                  /\ \A h \in 1..Len(requests) :
                         requests[h].iteration < requests[k].iteration =>
                             requests[k].t >= requests[h].t + 60
    /\ Len(student_ids) <= step => pauses = 0 /\ i <= 1
    /\ Extracted =>
           /\ i = ChunkCount
           /\ Len(dfs_rt) = ChunkCount /\ Len(dfs_fc) = ChunkCount
           /\ \A k \in 1..ChunkCount :
                  /\ FrameIds(dfs_rt[k]) = ExpectedChunk(k)
                  /\ FrameIds(dfs_fc[k]) = ExpectedChunk(k)
           /\ Len(student_ids) <= step => i = 1 /\ clock = 60 * answered429

\* C2 witness: a roster of 3 with chunk size 2 has run its 2 iterations, over
\* the participants [1, 2] and then [3], with a pause before the second.
C2_Witness ==
    /\ committed /\ Len(student_ids) = 3 /\ step = 2
    /\ i = 2
    /\ FrameIds(dfs_rt[1]) = <<1, 2>> /\ FrameIds(dfs_rt[2]) = <<3>>
    /\ requests[5].STUDENT_ID = 3 /\ requests[5].pauses = 1

\* C3: separate_into_breakpoints returns the multiples of step up to total,
\* followed by total when it is not a multiple: strictly ascending from 0 to
\* total in steps of at most step.
C3_Breakpoints ==
    ppc = "done" =>
        /\ Len(result) >= 1
        /\ result[1] = 0
        /\ result[Len(result)] = total
        /\ \A k \in 1..(Len(result) - 1) :
               /\ result[k] < result[k + 1]
               /\ result[k + 1] - result[k] <= pstep
               /\ result[k] = (k - 1) * pstep
        /\ Len(result) = (total \div pstep) + (IF total % pstep = 0 THEN 1 ELSE 2)
        /\ (total = 45 /\ pstep = 20) => result = <<0, 20, 40, 45>>
        /\ (total = 40 /\ pstep = 20) => result = <<0, 20, 40>>
        /\ total = 0 => result = <<0>>

\* C3 witness: the call (45, 20) has returned [0, 20, 40, 45].
C3_Witness == ppc = "done" /\ total = 45 /\ pstep = 20 /\ result = <<0, 20, 40, 45>>

\* C4: requests go to participants of the roster only, never more than one
\* per participant and kind beyond the 429 answers received; a run whose
\* loop has ended has put every participant in exactly one chunk and has issued,
\* per participant and kind, one request plus one per 429 answer.
C4_RequestsPerParticipant ==
    /\ \A k \in 1..Len(requests) :
           \E m \in 1..Len(student_ids) : student_ids[m] = requests[k].STUDENT_ID
    /\ \A m \in 1..Len(student_ids) : \A kind \in RequestKinds :
           Cardinality(Exchanges(student_ids[m], kind))
               <= 1 + Cardinality(Rejected(student_ids[m], kind))
    /\ Extracted =>
           /\ Concat([k \in 1..Len(dfs_rt) |-> FrameIds(dfs_rt[k])]) = student_ids
           /\ Concat([k \in 1..Len(dfs_fc) |-> FrameIds(dfs_fc[k])]) = student_ids
           /\ \A m \in 1..Len(student_ids) : \A kind \in RequestKinds :
                  Cardinality(Exchanges(student_ids[m], kind))
                      = 1 + Cardinality(Rejected(student_ids[m], kind))
           /\ Len(requests) = 2 * Len(student_ids) + answered429

\* C4 witness: a run over 3 participants in chunks of 2 without a 429
\* answer has reached its commit with 6 requests.
C4_Witness ==
    /\ committed /\ Len(student_ids) = 3 /\ step = 2
    /\ answered429 = 0 /\ Len(requests) = 6

\* C5: _calculate_aqi fails with AqiUndefinedError on a concentration that
\* lies in none of the six ranges.
C5_RaisesOnUnmatched ==
    (apc = "done" /\ Matching(raw) = {}) => aqiRaw = [error |-> "AqiUndefinedError"]

\* C6: when to_sql has raised, the handler logs the exception and control
\* reaches the commit with no exception and no row written; the commit is
\* then made and main completes without raising.
C6_SinkFailureContained ==
    /\ [][pc = "except" =>
             /\ pc' = "commit"
             /\ err' = NoError
             /\ <<"exception", "Exception encountered: ">> \in logs'
             /\ table' = table]_vars
    /\ [][(pc = "commit" /\ <<"exception", "Exception encountered: ">> \in logs) =>
             /\ committed'
             /\ pc' = "done"
             /\ err' = NoError]_vars

\* The value of table row k at its lower bound (side 3) or upper bound (side
\* 4), as the specification's table gives it.
TableAqi ==
    << <<0, 0>>, <<900, 50>>, <<910, 51>>, <<3540, 100>>, <<3550, 101>>,
       <<5540, 150>>, <<5550, 151>>, <<12540, 200>>, <<12550, 201>>,
       <<22540, 300>>, <<22550, 301>>, <<500000, 500>> >>

\* C7: at the lower and the upper concentration of each range the AQI is
\* exactly the lower and the upper index of the range, and inside a range it
\* is the linear interpolation of the range.
C7_BoundariesExact ==
    apc = "done" =>
        /\ \A k \in 1..Len(TableAqi) :
               raw = TableAqi[k][1] =>
                   aqiRaw # None /\ aqiRaw.num = TableAqi[k][2] * aqiRaw.den
        /\ \A k \in 1..Len(breakpoints_pm25) :
               (C_low(k) <= raw /\ raw <= C_high(k)) =>
                   /\ aqiRaw # None
                   /\ aqiRaw.den = C_high(k) - C_low(k)
                   /\ aqiRaw.num - I_low(k) * aqiRaw.den
                          = (I_high(k) - I_low(k)) * (raw - C_low(k))

\* C7 witness: _calculate_aqi(35.4) has returned exactly 100.
C7_Witness == apc = "done" /\ raw = 3540 /\ aqiRaw # None /\ aqiRaw.num = 100 * aqiRaw.den

\* C8: the merged frame has exactly one row per participant of either side
\* and no other row; the forecast fields are missing exactly for the
\* participants without a forecast row and the current fields exactly for
\* those without a current row, and the fields present are those of the rows.
C8_OuterJoin ==
    mpc = "done" =>
        /\ Ids(full) = Ids(rt) \cup Ids(fc)
        /\ Len(full) = Cardinality(Ids(rt) \cup Ids(fc))
        /\ \A k \in 1..Len(full) :
               LET id == full[k].STUDENT_ID
               IN /\ Len(RowsOf(full, id)) = 1
                  /\ IF id \in Ids(fc)
                     THEN /\ full[k].AQI_TODAY = <<RowsOf(fc, id)[1].AQI_TODAY>>
                          /\ full[k].AQI_NEXT_DAY = <<RowsOf(fc, id)[1].AQI_NEXT_DAY>>
                     ELSE full[k].AQI_TODAY = NaN /\ full[k].AQI_NEXT_DAY = NaN
                  /\ IF id \in Ids(rt)
                     THEN /\ full[k].LAT = <<RowsOf(rt, id)[1].LAT>>
                          /\ full[k].LON = <<RowsOf(rt, id)[1].LON>>
                          /\ full[k].DT = <<RowsOf(rt, id)[1].DT>>
                          /\ full[k].AQI_CURRENT = <<RowsOf(rt, id)[1].AQI_CURRENT>>
                     ELSE /\ full[k].LAT = NaN /\ full[k].LON = NaN
                          /\ full[k].DT = NaN /\ full[k].AQI_CURRENT = NaN

\* C8 witness: participant 1 has only a current row, 2 only a forecast row,
\* 3 both, and the merged frame has 3 rows with the missing fields of 1 and 2.
C8_Witness ==
    /\ mpc = "done" /\ Ids(rt) = {1, 3} /\ Ids(fc) = {2, 3}
    /\ Len(full) = 3
    /\ full[1].STUDENT_ID = 1 /\ full[1].AQI_TODAY = NaN /\ full[1].AQI_NEXT_DAY = NaN
    /\ full[2].STUDENT_ID = 2 /\ full[2].LAT = NaN /\ full[2].AQI_CURRENT = NaN
    /\ full[3].STUDENT_ID = 3 /\ full[3].AQI_CURRENT # NaN /\ full[3].AQI_TODAY # NaN

\* C9: with a roster of zero rows the run is still in the constructor or has
\* failed there with EmptyDataError; no request, chunk, write or commit.
C9_EmptyRosterAborts ==
    Len(students_df) = 0 =>
        /\ pc \in {"construct", "crashed"}
        /\ pc = "crashed" => err = "EmptyDataError"
        /\ requests = <<>>
        /\ i = 0 /\ student_chunks = <<>> /\ dfs_rt = <<>> /\ dfs_fc = <<>>
        /\ table = <<>>
        /\ ~committed

\* C9 witness: the run over an empty roster has failed with EmptyDataError.
C9_Witness ==
    /\ Len(students_df) = 0 /\ pc = "crashed" /\ err = "EmptyDataError"
    /\ <<"error", "DataFrame is empty">> \in logs

\* C10: a formatted concentration is a multiple of 0.1; from 0.0 to 5000 it
\* lies in exactly one range and its AQI is between 0 and 500; the AQI is
\* undefined exactly when it lies below 0 or above 5000.
C10_FormattedHitsOneRange ==
    apc = "done" =>
        /\ fmt % 10 = 0
        /\ (0 <= fmt /\ fmt <= 500000) =>
               /\ Cardinality({k \in 1..Len(breakpoints_pm25) :
                      breakpoints_pm25[k][3] <= fmt /\ fmt <= breakpoints_pm25[k][4]}) = 1
               /\ aqi # None
               /\ 0 <= aqi.num /\ aqi.num <= 500 * aqi.den
        /\ (fmt < 0 \/ fmt > 500000) <=> aqi = None

\* C10 witness: the reading 9.05, which lies between the first two ranges,
\* was formatted to 9.0 and scored 50.
C10_Witness ==
    /\ apc = "done" /\ raw = 905 /\ Matching(raw) = {}
    /\ fmt = 900 /\ aqi # None /\ aqi.num = 50 * aqi.den


====
